---- MODULE Spec2Model ----
(***************************************************************************)
(* Model of src/vector/vector.h: RawMemory<T> (an owned block of raw       *)
(* storage) and Vector<T> (a growable array of live elements laid out in a *)
(* RawMemory).                                                             *)
(*                                                                         *)
(* The heap is a map from block addresses to the slots of the block; a     *)
(* slot is either uninitialised (U) or holds a live element value.  Every  *)
(* public operation of Vector is one action that runs the whole member     *)
(* function, including the unwinding performed when an element operation   *)
(* or an allocation throws.                                                *)
(***************************************************************************)
EXTENDS Integers, Sequences, FiniteSets, TLC

\* ---------------------------------------------------------------- bounds
MaxVal == 2       \* element values supplied by callers are 1..MaxVal
MaxCap == 4       \* no operation is started that would allocate more slots
MaxBlocks == 3    \* addresses of the heap; operator new fails when none is free
MaxK == 4         \* the k-th throwing-capable call of an operation throws, k in 0..MaxK
MaxOps == 3       \* calls made after the first vector has been constructed

Vecs == {"A", "B"}
Values == 1..MaxVal
Addrs == 1..MaxBlocks

U == -2           \* slot without a live element (raw storage)
MF == -1          \* value of an element that has been moved from
DefaultValue == 0 \* value of a value-initialised element, T()
nullptr == 0

\* Element types the container is instantiated with:
\*  "trivial"        int-like: nothing throws, a move leaves the source as is
\*  "nothrow_move"   noexcept move constructor, copies may throw
\*  "throwing_move"  copyable, move constructor/assignment may throw
ElemTypes == {"trivial", "nothrow_move", "throwing_move"}

VARIABLES
    T,       \* the element type of Vector<T>
    heap,    \* heap[a]: slots of the block at address a, <<>> when a is free
    alive,   \* the Vector objects whose lifetime has begun and not ended
    vec,     \* vec[v] = [data_ |-> [buffer_, capacity_], size_]
    last,    \* the last completed call: its inputs, outcome and pre-state
    ops,     \* number of calls made so far
    failed,  \* some call so far has thrown
    copies   \* the living vectors that were copy-constructed

vars == <<T, heap, alive, vec, last, ops, failed, copies>>

\* ------------------------------------------------------- element type traits
is_nothrow_move_constructible == T \in {"trivial", "nothrow_move"}
is_copy_constructible == TRUE
CopyMayThrow == T # "trivial"
MoveMayThrow == T = "throwing_move"
CtorMayThrow == T # "trivial"
MovedFrom(x) == IF T = "trivial" THEN x ELSE MF

\* ------------------------------------------------------- execution context
\* c.heap    the heap while the call runs
\* c.k       1: the next throwing-capable call throws; 0: none will
\* c.thrown  an exception is propagating
\* c.ctors / c.dtors  constructor / destructor calls made by the call
\* c.lost    live elements whose storage was released or reused without
\*           running their destructor
\* c.ub      a non-live slot was read, assigned to or destroyed
\* c.dfree   a block was released that was not allocated
Ctx(h, k) == [heap |-> h, k |-> k, thrown |-> FALSE, ctors |-> 0, dtors |-> 0,
              lost |-> 0, ub |-> FALSE, dfree |-> FALSE, log |-> <<>>]

\* the steps of a call in the order they are executed: "allocate" and
\* "deallocate" of block a, "construct" and "destroy" of slot i of block a,
\* "swap" (data_ now holds block a), "size" (size_ is now i)
Note(c, e, a, i) == [c EXCEPT !.log = Append(@, [e |-> e, a |-> a, i |-> i])]

Fails(c, mayThrow) == mayThrow /\ c.k = 1
Raise(c) == [c EXCEPT !.thrown = TRUE, !.k = 0]
Tick(c, mayThrow) == IF mayThrow /\ c.k > 0 THEN [c EXCEPT !.k = @ - 1] ELSE c

Slot(c, a, i) == c.heap[a][i + 1]
Live(h, a, i) == h[a][i + 1] # U
LiveCount(h, a) == Cardinality({i \in 1..Len(h[a]) : h[a][i] # U})

\* placement new: an element with value x starts its life in slot i of block a
Put(c, a, i, x) ==
    [Note(c, "construct", a, i) EXCEPT
              !.heap[a][i + 1] = x,
              !.ctors = @ + 1,
              !.lost = @ + (IF Live(c.heap, a, i) THEN 1 ELSE 0)]

\* a constructor call that may throw, building the value x in slot i
ConstructAt(c, a, i, x, mayThrow) ==
    IF Fails(c, mayThrow) THEN Raise(c) ELSE Put(Tick(c, mayThrow), a, i, x)

\* new (dst) T(std::move(*src)) for two slots of the heap
MoveConstructAt(c, da, di, sa, si) ==
    IF Fails(c, MoveMayThrow) THEN Raise(c)
    ELSE LET x == Slot(c, sa, si)
             c1 == Put(Tick(c, MoveMayThrow), da, di, x)
         IN [c1 EXCEPT !.heap[sa][si + 1] = MovedFrom(x),
                       !.ub = @ \/ x = U]

\* *dst = x (copy assignment to a live element)
CopyAssignAt(c, da, di, x) ==
    IF Fails(c, CopyMayThrow) THEN Raise(c)
    ELSE [Tick(c, CopyMayThrow) EXCEPT !.heap[da][di + 1] = x,
                                       !.ub = @ \/ ~Live(c.heap, da, di) \/ x = U]

\* *dst = std::move(*src)
MoveAssignAt(c, da, di, sa, si) ==
    IF Fails(c, MoveMayThrow) THEN Raise(c)
    ELSE LET x == Slot(c, sa, si)
         IN [Tick(c, MoveMayThrow) EXCEPT
                !.heap = [@ EXCEPT ![da][di + 1] = x, ![sa][si + 1] = MovedFrom(x)],
                !.ub = @ \/ ~Live(c.heap, da, di) \/ x = U]

\* std::destroy_at
DestroyAt(c, a, i) ==
    [Note(c, "destroy", a, i) EXCEPT
              !.heap[a][i + 1] = U,
              !.dtors = @ + 1,
              !.ub = @ \/ ~Live(c.heap, a, i)]

\* std::destroy_n(first, n): first = slot i of block a
RECURSIVE destroy_n(_, _, _, _)
destroy_n(c, a, i, n) ==
    IF n = 0 THEN c ELSE destroy_n(DestroyAt(c, a, i), a, i + 1, n - 1)
\* ------------------------------------------------------- <memory>, <algorithm>
\* std::uninitialized_copy_n(src, n, dst): copy-constructs n elements; when
\* the copy of element j throws, the j elements built so far are destroyed
RECURSIVE UCopyFrom(_, _, _, _, _, _, _)
UCopyFrom(c, sa, si, n, da, di, j) ==
    IF j = n THEN c
    ELSE LET x == Slot(c, sa, si + j)
             c1 == ConstructAt([c EXCEPT !.ub = @ \/ x = U], da, di + j, x, CopyMayThrow)
         IN IF c1.thrown THEN destroy_n(c1, da, di, j)
            ELSE UCopyFrom(c1, sa, si, n, da, di, j + 1)

uninitialized_copy_n(c, sa, si, n, da, di) == UCopyFrom(c, sa, si, n, da, di, 0)

\* std::uninitialized_move_n(src, n, dst), same unwinding
RECURSIVE UMoveFrom(_, _, _, _, _, _, _)
UMoveFrom(c, sa, si, n, da, di, j) ==
    IF j = n THEN c
    ELSE LET c1 == MoveConstructAt(c, da, di + j, sa, si + j)
         IN IF c1.thrown THEN destroy_n(c1, da, di, j)
            ELSE UMoveFrom(c1, sa, si, n, da, di, j + 1)

uninitialized_move_n(c, sa, si, n, da, di) == UMoveFrom(c, sa, si, n, da, di, 0)

\* std::uninitialized_value_construct_n(dst, n), same unwinding
RECURSIVE UValueFrom(_, _, _, _, _)
UValueFrom(c, da, di, n, j) ==
    IF j = n THEN c
    ELSE LET c1 == ConstructAt(c, da, di + j, DefaultValue, CtorMayThrow)
         IN IF c1.thrown THEN destroy_n(c1, da, di, j)
            ELSE UValueFrom(c1, da, di, n, j + 1)

uninitialized_value_construct_n(c, da, di, n) == UValueFrom(c, da, di, n, 0)

\* std::copy_n(src, n, dst): copy-assigns front to back, stops at a throw
RECURSIVE copy_n(_, _, _, _, _, _)
copy_n(c, sa, si, n, da, di) ==
    IF n = 0 \/ c.thrown THEN c
    ELSE copy_n(CopyAssignAt(c, da, di, Slot(c, sa, si)), sa, si + 1, n - 1, da, di + 1)

\* std::move(first, last, dst): move-assigns [si, si+n) front to back
RECURSIVE move_range(_, _, _, _, _)
move_range(c, a, si, n, di) ==
    IF n = 0 \/ c.thrown THEN c
    ELSE move_range(MoveAssignAt(c, a, di, a, si), a, si + 1, n - 1, di + 1)

\* std::move_backward(first, last, d_last): move-assigns [si, si+n) back to
\* front into the range that ends at slot dl (exclusive)
RECURSIVE move_backward(_, _, _, _, _)
move_backward(c, a, si, n, dl) ==
    IF n = 0 \/ c.thrown THEN c
    ELSE move_backward(MoveAssignAt(c, a, dl - 1, a, si + n - 1), a, si, n - 1, dl - 1)

\* ------------------------------------------------------- RawMemory<T>
NullMemory == [buffer_ |-> nullptr, capacity_ |-> 0]

FreeAddrs(h) == {a \in Addrs : h[a] = <<>>}
LowestFree(h) == CHOOSE a \in FreeAddrs(h) : \A b \in FreeAddrs(h) : a <= b

\* RawMemory::Allocate via RawMemory(size_t): operator new throws bad_alloc
\* when told to, or when the heap has no free block left
RawMemoryCtor(c, n) ==
    IF n = 0 THEN [c |-> c, m |-> NullMemory]
    ELSE IF Fails(c, TRUE) \/ FreeAddrs(c.heap) = {}
         THEN [c |-> Raise(c), m |-> NullMemory]
         ELSE LET a == LowestFree(c.heap)
              IN [c |-> [Note(Tick(c, TRUE), "allocate", a, 0) EXCEPT
                                                !.heap[a] = [i \in 1..n |-> U]],
                  m |-> [buffer_ |-> a, capacity_ |-> n]]

\* mutant: the destructor does not give the block back
RawMemoryDtor_Leak(c, m) == c

\* RawMemory::Deallocate via ~RawMemory: operator delete(buffer_)
RawMemoryDtor(c, m) ==
    IF m.buffer_ = nullptr THEN c
    ELSE IF c.heap[m.buffer_] = <<>>
    THEN [Note(c, "deallocate", m.buffer_, 0) EXCEPT !.dfree = TRUE]
    ELSE [Note(c, "deallocate", m.buffer_, 0) EXCEPT
                   !.heap[m.buffer_] = <<>>,
                   !.lost = @ + LiveCount(c.heap, m.buffer_)]

\* RawMemory::Swap: the pair <<this, other>> after the call
RawMemorySwap(this, other) ==
    <<[buffer_ |-> other.buffer_, capacity_ |-> other.capacity_],
      [buffer_ |-> this.buffer_, capacity_ |-> this.capacity_]>>

\* mutant: the source of the move keeps its address and capacity
RawMemoryMoveCtor_KeepSource(other) ==
    <<[buffer_ |-> other.buffer_, capacity_ |-> other.capacity_],
      [buffer_ |-> other.buffer_, capacity_ |-> other.capacity_]>>

\* RawMemory(RawMemory&& other): <<the new object, other>> after the call
RawMemoryMoveCtor(other) ==
    <<[buffer_ |-> other.buffer_, capacity_ |-> other.capacity_],
      [buffer_ |-> nullptr, capacity_ |-> 0]>>

\* RawMemory::operator=(RawMemory&& rhs): <<this, rhs>> after the call
RawMemoryMoveAssign(this, rhs) == RawMemorySwap(this, rhs)
\* ------------------------------------------------------- Vector<T>
EmptyVector == [data_ |-> NullMemory, size_ |-> 0]

\* an iterator is a slot address: block a, offset i
Iter(a, i) == [a |-> a, i |-> i]
NoIter == [a |-> nullptr, i |-> -1]

\* outcome of a member function: context, the vectors, the returned iterator
R(c, vs, ret) == [c |-> c, vec |-> vs, ret |-> ret]

Size(vs, v) == vs[v].size_
Capacity(vs, v) == vs[v].data_.capacity_
Begin(vs, v) == Iter(vs[v].data_.buffer_, 0)

\* the elements [0, Size()) of v as operator[] shows them
Elems(h, vs, v) == [i \in 1..vs[v].size_ |-> h[vs[v].data_.buffer_][i]]

\* Arguments of PushBack / Emplace / Insert: a value of the caller, or a
\* reference to element i of the vector the call is made on
ValArg(x) == [kind |-> "val", x |-> x, i |-> 0]
RefArg(i) == [kind |-> "ref", x |-> 0, i |-> i]
NoArg == [kind |-> "none", x |-> 0, i |-> 0]

\* what the argument denotes when it is read; buf is the block the
\* reference pointed into when the call was made
ArgRead(c, arg, buf) == IF arg.kind = "ref" THEN Slot(c, buf, arg.i) ELSE arg.x

\* T(value), T(std::move(value)), T(std::forward<Args>(args)...)
HowMayThrow(how) ==
    CASE how = "copy" -> CopyMayThrow
      [] how = "move" -> MoveMayThrow
      [] OTHER -> CtorMayThrow

\* new (a + i) T(args): the new element of an append or insert
ConstructNew(c, a, i, how, arg, buf) ==
    LET x == ArgRead(c, arg, buf)
    IN ConstructAt([c EXCEPT !.ub = @ \/ x = U], a, i, x, HowMayThrow(how))

\* mutant: the transfer always moves, whatever the move constructor may do
UninitializedMoveOrCopyN_AlwaysMove(c, sa, si, num, da, di) ==
    uninitialized_move_n(c, sa, si, num, da, di)

\* Vector::UninitializedMoveOrCopyN(begin, num, destination)
UninitializedMoveOrCopyN(c, sa, si, num, da, di) ==
    IF is_nothrow_move_constructible \/ ~is_copy_constructible
    THEN uninitialized_move_n(c, sa, si, num, da, di)
    ELSE uninitialized_copy_n(c, sa, si, num, da, di)

\* Vector::UninitializedMoveOrCopy(begin, end, destination)
UninitializedMoveOrCopy(c, sa, si, ei, da, di) ==
    IF is_nothrow_move_constructible \/ ~is_copy_constructible
    THEN uninitialized_move_n(c, sa, si, ei - si, da, di)
    ELSE uninitialized_copy_n(c, sa, si, ei - si, da, di)

\* data_.Swap(new_data) and ++size_ as steps of an appending or inserting call
Swapped(c, m) == Note(c, "swap", m.buffer_, 0)
Sized(c, n) == Note(c, "size", nullptr, n)

\* Vector(): data_ and size_ take their default member initialisers
VectorDefault(vs, c, v) == R(c, [vs EXCEPT ![v] = EmptyVector], NoIter)

\* explicit Vector(size_t size); when a constructor throws, the member data_
\* is destroyed and the object never exists
VectorSized(vs, c, v, size) ==
    LET al == RawMemoryCtor(c, size)
        c1 == uninitialized_value_construct_n(al.c, al.m.buffer_, 0, size)
    IN IF al.c.thrown THEN R(al.c, vs, NoIter)
       ELSE IF c1.thrown THEN R(RawMemoryDtor(c1, al.m), vs, NoIter)
       ELSE R(c1, [vs EXCEPT ![v] = [data_ |-> al.m, size_ |-> size]], NoIter)

\* mutant: the copy takes the address of the original's buffer
VectorCopy_SharedBuffer(vs, c, v, other) ==
    R(c, [vs EXCEPT ![v] = [data_ |-> [buffer_ |-> vs[other].data_.buffer_,
                                       capacity_ |-> vs[other].size_],
                            size_ |-> vs[other].size_]], NoIter)

\* Vector(const Vector& other)
VectorCopy(vs, c, v, other) ==
    LET al == RawMemoryCtor(c, vs[other].size_)
        c1 == uninitialized_copy_n(al.c, vs[other].data_.buffer_, 0, vs[other].size_,
                                   al.m.buffer_, 0)
    IN IF al.c.thrown THEN R(al.c, vs, NoIter)
       ELSE IF c1.thrown THEN R(RawMemoryDtor(c1, al.m), vs, NoIter)
       ELSE R(c1, [vs EXCEPT ![v] = [data_ |-> al.m, size_ |-> vs[other].size_]], NoIter)

\* mutant: the source keeps its size_
VectorMove_KeepSize(vs, c, v, other) ==
    LET mm == RawMemoryMoveCtor(vs[other].data_)
    IN R(c, [vs EXCEPT ![v] = [data_ |-> mm[1], size_ |-> vs[other].size_],
                       ![other] = [data_ |-> mm[2], size_ |-> vs[other].size_]], NoIter)

\* Vector(Vector&& other) noexcept
VectorMove(vs, c, v, other) ==
    LET mm == RawMemoryMoveCtor(vs[other].data_)
    IN R(c, [vs EXCEPT ![v] = [data_ |-> mm[1], size_ |-> vs[other].size_],
                       ![other] = [data_ |-> mm[2], size_ |-> 0]], NoIter)

\* ~Vector(): destroy_n(begin(), size_), then ~RawMemory releases the block
VectorDtor(vs, c, v) ==
    LET c1 == destroy_n(c, vs[v].data_.buffer_, 0, vs[v].size_)
    IN R(RawMemoryDtor(c1, vs[v].data_), [vs EXCEPT ![v] = EmptyVector], NoIter)

\* mutant: the growth path transfers the elements before it builds the new one
PushBack_TransferFirst(vs, c, v, arg) ==
    LET d == vs[v].data_
        size_ == vs[v].size_
    IN IF size_ = d.capacity_
       THEN LET al == RawMemoryCtor(c, IF size_ = 0 THEN 1 ELSE size_ * 2)
                new_data == al.m
                c1 == UninitializedMoveOrCopyN(al.c, d.buffer_, 0, size_, new_data.buffer_, 0)
                c2 == ConstructNew(c1, new_data.buffer_, size_, "copy", arg, d.buffer_)
                c3 == destroy_n(c2, d.buffer_, 0, size_)
                sw == RawMemorySwap(d, new_data)
            IN IF al.c.thrown THEN R(al.c, vs, NoIter)
               ELSE IF c1.thrown THEN R(RawMemoryDtor(c1, new_data), vs, NoIter)
               ELSE IF c2.thrown THEN R(RawMemoryDtor(c2, new_data), vs, NoIter)
               ELSE R(Sized(RawMemoryDtor(Swapped(c3, sw[1]), sw[2]), size_ + 1),
                      [vs EXCEPT ![v] = [data_ |-> sw[1], size_ |-> size_ + 1]], NoIter)
       ELSE LET c1 == ConstructNew(c, d.buffer_, size_, "copy", arg, d.buffer_)
            IN IF c1.thrown THEN R(c1, vs, NoIter)
               ELSE R(Sized(c1, size_ + 1), [vs EXCEPT ![v].size_ = size_ + 1], NoIter)

\* mutant: the growth path asks for one more slot instead of twice as many
PushBack_GrowByOne(vs, c, v, arg) ==
    LET d == vs[v].data_
        size_ == vs[v].size_
    IN IF size_ = d.capacity_
       THEN LET al == RawMemoryCtor(c, size_ + 1)
                new_data == al.m
                c1 == ConstructNew(al.c, new_data.buffer_, size_, "copy", arg, d.buffer_)
                c2 == UninitializedMoveOrCopyN(c1, d.buffer_, 0, size_, new_data.buffer_, 0)
                c3 == destroy_n(c2, d.buffer_, 0, size_)
                sw == RawMemorySwap(d, new_data)
            IN IF al.c.thrown THEN R(al.c, vs, NoIter)
               ELSE IF c1.thrown THEN R(RawMemoryDtor(c1, new_data), vs, NoIter)
               ELSE IF c2.thrown THEN R(RawMemoryDtor(c2, new_data), vs, NoIter)
               ELSE R(Sized(RawMemoryDtor(Swapped(c3, sw[1]), sw[2]), size_ + 1),
                      [vs EXCEPT ![v] = [data_ |-> sw[1], size_ |-> size_ + 1]], NoIter)
       ELSE LET c1 == ConstructNew(c, d.buffer_, size_, "copy", arg, d.buffer_)
            IN IF c1.thrown THEN R(c1, vs, NoIter)
               ELSE R(Sized(c1, size_ + 1), [vs EXCEPT ![v].size_ = size_ + 1], NoIter)

\* void PushBack(const T& value)
PushBack(vs, c, v, arg) ==
    LET d == vs[v].data_
        size_ == vs[v].size_
    IN IF size_ = d.capacity_
       THEN LET al == RawMemoryCtor(c, IF size_ = 0 THEN 1 ELSE size_ * 2)
                new_data == al.m
                c1 == ConstructNew(al.c, new_data.buffer_, size_, "copy", arg, d.buffer_)
                c2 == UninitializedMoveOrCopyN(c1, d.buffer_, 0, size_, new_data.buffer_, 0)
                c3 == destroy_n(c2, d.buffer_, 0, size_)
                sw == RawMemorySwap(d, new_data)
            IN IF al.c.thrown THEN R(al.c, vs, NoIter)
               ELSE IF c1.thrown THEN R(RawMemoryDtor(c1, new_data), vs, NoIter)
               ELSE IF c2.thrown THEN R(RawMemoryDtor(c2, new_data), vs, NoIter)
               ELSE R(Sized(RawMemoryDtor(Swapped(c3, sw[1]), sw[2]), size_ + 1),
                      [vs EXCEPT ![v] = [data_ |-> sw[1], size_ |-> size_ + 1]], NoIter)
       ELSE LET c1 == ConstructNew(c, d.buffer_, size_, "copy", arg, d.buffer_)
            IN IF c1.thrown THEN R(c1, vs, NoIter)
               ELSE R(Sized(c1, size_ + 1), [vs EXCEPT ![v].size_ = size_ + 1], NoIter)

\* void PushBack(T&& value)
PushBackMove(vs, c, v, arg) ==
    LET d == vs[v].data_
        size_ == vs[v].size_
    IN IF size_ = d.capacity_
       THEN LET al == RawMemoryCtor(c, IF size_ = 0 THEN 1 ELSE size_ * 2)
                new_data == al.m
                c1 == ConstructNew(al.c, new_data.buffer_, size_, "move", arg, d.buffer_)
                c2 == UninitializedMoveOrCopyN(c1, d.buffer_, 0, size_, new_data.buffer_, 0)
                c3 == destroy_n(c2, d.buffer_, 0, size_)
                sw == RawMemorySwap(d, new_data)
            IN IF al.c.thrown THEN R(al.c, vs, NoIter)
               ELSE IF c1.thrown THEN R(RawMemoryDtor(c1, new_data), vs, NoIter)
               ELSE IF c2.thrown THEN R(RawMemoryDtor(c2, new_data), vs, NoIter)
               ELSE R(Sized(RawMemoryDtor(Swapped(c3, sw[1]), sw[2]), size_ + 1),
                      [vs EXCEPT ![v] = [data_ |-> sw[1], size_ |-> size_ + 1]], NoIter)
       ELSE LET c1 == ConstructNew(c, d.buffer_, size_, "move", arg, d.buffer_)
            IN IF c1.thrown THEN R(c1, vs, NoIter)
               ELSE R(Sized(c1, size_ + 1), [vs EXCEPT ![v].size_ = size_ + 1], NoIter)

\* T& EmplaceBack(Args&&... args); the returned reference is to Back()
EmplaceBack(vs, c, v, arg) ==
    LET d == vs[v].data_
        size_ == vs[v].size_
    IN IF size_ = d.capacity_
       THEN LET al == RawMemoryCtor(c, IF size_ = 0 THEN 1 ELSE size_ * 2)
                new_data == al.m
                c1 == ConstructNew(al.c, new_data.buffer_, size_, "args", arg, d.buffer_)
                c2 == UninitializedMoveOrCopyN(c1, d.buffer_, 0, size_, new_data.buffer_, 0)
                c3 == destroy_n(c2, d.buffer_, 0, size_)
                sw == RawMemorySwap(d, new_data)
            IN IF al.c.thrown THEN R(al.c, vs, NoIter)
               ELSE IF c1.thrown THEN R(RawMemoryDtor(c1, new_data), vs, NoIter)
               ELSE IF c2.thrown THEN R(RawMemoryDtor(c2, new_data), vs, NoIter)
               ELSE R(Sized(RawMemoryDtor(Swapped(c3, sw[1]), sw[2]), size_ + 1),
                      [vs EXCEPT ![v] = [data_ |-> sw[1], size_ |-> size_ + 1]],
                      Iter(sw[1].buffer_, size_))
       ELSE LET c1 == ConstructNew(c, d.buffer_, size_, "args", arg, d.buffer_)
            IN IF c1.thrown THEN R(c1, vs, NoIter)
               ELSE R(Sized(c1, size_ + 1), [vs EXCEPT ![v].size_ = size_ + 1], Iter(d.buffer_, size_))

\* void PopBack() noexcept
PopBack(vs, c, v) ==
    LET n == vs[v].size_ - 1
    IN R(DestroyAt(c, vs[v].data_.buffer_, n), [vs EXCEPT ![v].size_ = n], NoIter)
\* mutant: the transfer to the new block always moves
Reserve_AlwaysMove(vs, c, v, new_capacity) ==
    LET d == vs[v].data_
        size_ == vs[v].size_
    IN IF new_capacity <= d.capacity_ THEN R(c, vs, NoIter)
       ELSE LET al == RawMemoryCtor(c, new_capacity)
                new_data == al.m
                c1 == uninitialized_move_n(al.c, d.buffer_, 0, size_, new_data.buffer_, 0)
                c2 == destroy_n(c1, d.buffer_, 0, size_)
                sw == RawMemorySwap(d, new_data)
            IN IF al.c.thrown THEN R(al.c, vs, NoIter)
               ELSE IF c1.thrown THEN R(RawMemoryDtor(c1, new_data), vs, NoIter)
               ELSE R(RawMemoryDtor(c2, sw[2]), [vs EXCEPT ![v].data_ = sw[1]], NoIter)

\* void Reserve(size_t new_capacity)
Reserve(vs, c, v, new_capacity) ==
    LET d == vs[v].data_
        size_ == vs[v].size_
    IN IF new_capacity <= d.capacity_ THEN R(c, vs, NoIter)
       ELSE LET al == RawMemoryCtor(c, new_capacity)
                new_data == al.m
                c1 == IF is_nothrow_move_constructible \/ ~is_copy_constructible
                      THEN uninitialized_move_n(al.c, d.buffer_, 0, size_, new_data.buffer_, 0)
                      ELSE uninitialized_copy_n(al.c, d.buffer_, 0, size_, new_data.buffer_, 0)
                c2 == destroy_n(c1, d.buffer_, 0, size_)
                sw == RawMemorySwap(d, new_data)
            IN IF al.c.thrown THEN R(al.c, vs, NoIter)
               ELSE IF c1.thrown THEN R(RawMemoryDtor(c1, new_data), vs, NoIter)
               ELSE R(RawMemoryDtor(c2, sw[2]), [vs EXCEPT ![v].data_ = sw[1]], NoIter)

\* void Swap(Vector& other) noexcept
Swap(vs, c, v, other) ==
    LET sw == RawMemorySwap(vs[v].data_, vs[other].data_)
    IN IF v = other THEN R(c, vs, NoIter)
       ELSE R(c, [vs EXCEPT ![v] = [data_ |-> sw[1], size_ |-> vs[other].size_],
                            ![other] = [data_ |-> sw[2], size_ |-> vs[v].size_]], NoIter)

\* mutant: shrinking only lowers size_, the trailing elements are not destroyed
Resize_NoDestroy(vs, c, v, new_size) ==
    LET size_ == vs[v].size_
    IN IF new_size = size_ THEN R(c, vs, NoIter)
       ELSE IF new_size < size_
       THEN R(c, [vs EXCEPT ![v].size_ = new_size], NoIter)
       ELSE LET r1 == Reserve(vs, c, v, new_size)
                c2 == uninitialized_value_construct_n(r1.c, r1.vec[v].data_.buffer_,
                                                      size_, new_size - size_)
            IN IF r1.c.thrown THEN r1
               ELSE IF c2.thrown THEN R(c2, r1.vec, NoIter)
               ELSE R(c2, [r1.vec EXCEPT ![v].size_ = new_size], NoIter)

\* void Resize(size_t new_size)
Resize(vs, c, v, new_size) ==
    LET size_ == vs[v].size_
    IN IF new_size = size_ THEN R(c, vs, NoIter)
       ELSE IF new_size < size_
       THEN R(destroy_n(c, vs[v].data_.buffer_, new_size, size_ - new_size),
              [vs EXCEPT ![v].size_ = new_size], NoIter)
       ELSE LET r1 == Reserve(vs, c, v, new_size)
                c2 == uninitialized_value_construct_n(r1.c, r1.vec[v].data_.buffer_,
                                                      size_, new_size - size_)
            IN IF r1.c.thrown THEN r1
               ELSE IF c2.thrown THEN R(c2, r1.vec, NoIter)
               ELSE R(c2, [r1.vec EXCEPT ![v].size_ = new_size], NoIter)

\* Emplace, the branch Size() == Capacity(): the new element is built in a
\* new block, the prefix and the suffix are transferred around it
EmplaceRealloc(vs, c, v, p, how, arg) ==
    LET d == vs[v].data_
        size_ == vs[v].size_
        al == RawMemoryCtor(c, IF size_ = 0 THEN 1 ELSE size_ * 2)
        new_data == al.m
        c1 == ConstructNew(al.c, new_data.buffer_, p, how, arg, d.buffer_)
        c2 == UninitializedMoveOrCopy(c1, d.buffer_, 0, p, new_data.buffer_, 0)
        c3 == UninitializedMoveOrCopy(c2, d.buffer_, p, size_, new_data.buffer_, p + 1)
        c4 == destroy_n(c3, d.buffer_, 0, size_)
        sw == RawMemorySwap(d, new_data)
    IN IF al.c.thrown THEN R(al.c, vs, NoIter)
       ELSE IF c1.thrown THEN R(RawMemoryDtor(c1, new_data), vs, NoIter)
       ELSE IF c2.thrown THEN R(RawMemoryDtor(c2, new_data), vs, NoIter)
       ELSE IF c3.thrown THEN R(RawMemoryDtor(c3, new_data), vs, NoIter)
       ELSE R(Sized(RawMemoryDtor(Swapped(c4, sw[1]), sw[2]), size_ + 1),
              [vs EXCEPT ![v] = [data_ |-> sw[1], size_ |-> size_ + 1]],
              Iter(new_data.buffer_, p))

\* Emplace, the branch Size() < Capacity() with pos == end()
EmplaceAtEnd(vs, c, v, p, how, arg) ==
    LET d == vs[v].data_
        size_ == vs[v].size_
        c1 == ConstructNew(c, d.buffer_, size_, how, arg, d.buffer_)
    IN IF c1.thrown THEN R(c1, vs, NoIter)
       ELSE R(Sized(c1, size_ + 1), [vs EXCEPT ![v].size_ = size_ + 1], Iter(d.buffer_, p))

\* Emplace, the branch Size() < Capacity() with pos != end(): Back() is
\* move-constructed into the spare slot, [pos, end()-1) is shifted by
\* move_backward, the temporary T(args...) is move-assigned to *pos
EmplaceInPlace(vs, c, v, p, how, arg) ==
    LET d == vs[v].data_
        size_ == vs[v].size_
        c1 == MoveConstructAt(c, d.buffer_, size_, d.buffer_, size_ - 1)
        c2 == move_backward(c1, d.buffer_, p, size_ - 1 - p, size_)
        \* the temporary T(args...); it is destroyed at the end of the
        \* statement, also when the assignment from it throws
        x == ArgRead(c2, arg, d.buffer_)
        c3 == IF Fails(c2, HowMayThrow(how)) THEN Raise(c2)
              ELSE [Tick(c2, HowMayThrow(how)) EXCEPT !.ctors = @ + 1,
                                                       !.ub = @ \/ x = U]
        c4 == IF Fails(c3, MoveMayThrow)
              THEN [Raise(c3) EXCEPT !.dtors = @ + 1]
              ELSE [Tick(c3, MoveMayThrow) EXCEPT
                        !.heap[d.buffer_][p + 1] = x,
                        !.dtors = @ + 1,
                        !.ub = @ \/ ~Live(c3.heap, d.buffer_, p)]
    IN IF c1.thrown THEN R(c1, vs, NoIter)
       ELSE IF c2.thrown THEN R(c2, vs, NoIter)
       ELSE IF c3.thrown THEN R(c3, vs, NoIter)
       ELSE IF c4.thrown THEN R(c4, vs, NoIter)
       ELSE R(Sized(c4, size_ + 1), [vs EXCEPT ![v].size_ = size_ + 1], Iter(d.buffer_, p))

\* mutant: the in-place branch never shifts, it builds the element at end()
Emplace_NoShift(vs, c, v, p, how, arg) ==
    IF vs[v].size_ = vs[v].data_.capacity_ THEN EmplaceRealloc(vs, c, v, p, how, arg)
    ELSE EmplaceAtEnd(vs, c, v, p, how, arg)

\* iterator Emplace(const_iterator pos, Args&&... args), pos = begin() + p;
\* how tells which constructor T(args...) is
Emplace(vs, c, v, p, how, arg) ==
    IF vs[v].size_ = vs[v].data_.capacity_ THEN EmplaceRealloc(vs, c, v, p, how, arg)
    ELSE IF p # vs[v].size_ THEN EmplaceInPlace(vs, c, v, p, how, arg)
    ELSE EmplaceAtEnd(vs, c, v, p, how, arg)

\* iterator Insert(const_iterator pos, const T& value)
Insert(vs, c, v, p, arg) == Emplace(vs, c, v, p, "copy", arg)

\* iterator Insert(const_iterator pos, T&& value)
InsertMove(vs, c, v, p, arg) == Emplace(vs, c, v, p, "move", arg)

\* mutant: the elements after pos are not shifted, the last one is popped
Erase_NoShift(vs, c, v, p) ==
    LET r == PopBack(vs, c, v)
    IN R(r.c, r.vec, Iter(vs[v].data_.buffer_, p))

\* iterator Erase(const_iterator pos) noexcept, pos = begin() + p
Erase(vs, c, v, p) ==
    LET d == vs[v].data_
        c1 == move_range(c, d.buffer_, p + 1, vs[v].size_ - (p + 1), p)
        r == PopBack(vs, c1, v)
    IN R(r.c, r.vec, Iter(d.buffer_, p))

\* mutant: every assignment from another vector copies and swaps
CopyAssign_AlwaysSwap(vs, c, v, rhs) ==
    IF v = rhs THEN R(c, vs, NoIter)
    ELSE LET al == RawMemoryCtor(c, vs[rhs].size_)
             c1 == uninitialized_copy_n(al.c, vs[rhs].data_.buffer_, 0, vs[rhs].size_,
                                        al.m.buffer_, 0)
             sw == RawMemorySwap(vs[v].data_, al.m)
             c2 == destroy_n(c1, sw[2].buffer_, 0, vs[v].size_)
         IN IF al.c.thrown THEN R(al.c, vs, NoIter)
            ELSE IF c1.thrown THEN R(RawMemoryDtor(c1, al.m), vs, NoIter)
            ELSE R(RawMemoryDtor(c2, sw[2]),
                   [vs EXCEPT ![v] = [data_ |-> sw[1], size_ |-> vs[rhs].size_]], NoIter)

\* mutant: when rhs is shorter, the storage-reusing path lowers size_ without
\* destroying the excess elements
CopyAssign_KeepExcess(vs, c, v, rhs) ==
    IF v = rhs THEN R(c, vs, NoIter)
    ELSE IF vs[rhs].size_ > vs[v].data_.capacity_
    THEN CopyAssign_AlwaysSwap(vs, c, v, rhs)
    ELSE LET a == vs[v].data_.buffer_
             b == vs[rhs].data_.buffer_
             n == vs[v].size_
             m == vs[rhs].size_
             c1 == copy_n(c, b, 0, IF n < m THEN n ELSE m, a, 0)
             c2 == IF m < n THEN c1
                   ELSE uninitialized_copy_n(c1, b, n, m - n, a, n)
         IN IF c1.thrown THEN R(c1, vs, NoIter)
            ELSE IF c2.thrown THEN R(c2, vs, NoIter)
            ELSE R(c2, [vs EXCEPT ![v].size_ = m], NoIter)

\* mutant: with rhs.size_ > Capacity() the vector destroys its elements and
\* releases its block before it builds the copy
CopyAssign_ReleaseFirst(vs, c, v, rhs) ==
    IF v = rhs THEN R(c, vs, NoIter)
    ELSE IF vs[rhs].size_ > vs[v].data_.capacity_
    THEN LET c0 == RawMemoryDtor(destroy_n(c, vs[v].data_.buffer_, 0, vs[v].size_),
                                 vs[v].data_)
             al == RawMemoryCtor(c0, vs[rhs].size_)
             c1 == uninitialized_copy_n(al.c, vs[rhs].data_.buffer_, 0, vs[rhs].size_,
                                        al.m.buffer_, 0)
             gone == [vs EXCEPT ![v] = EmptyVector]
         IN IF al.c.thrown THEN R(al.c, gone, NoIter)
            ELSE IF c1.thrown THEN R(RawMemoryDtor(c1, al.m), gone, NoIter)
            ELSE R(c1, [vs EXCEPT ![v] = [data_ |-> al.m, size_ |-> vs[rhs].size_]], NoIter)
    ELSE LET a == vs[v].data_.buffer_
             b == vs[rhs].data_.buffer_
             n == vs[v].size_
             m == vs[rhs].size_
             c1 == copy_n(c, b, 0, IF n < m THEN n ELSE m, a, 0)
             c2 == IF m < n THEN destroy_n(c1, a, m, n - m)
                   ELSE uninitialized_copy_n(c1, b, n, m - n, a, n)
         IN IF c1.thrown THEN R(c1, vs, NoIter)
            ELSE IF c2.thrown THEN R(c2, vs, NoIter)
            ELSE R(c2, [vs EXCEPT ![v].size_ = m], NoIter)

\* Vector& operator=(const Vector& rhs)
CopyAssign(vs, c, v, rhs) ==
    IF v = rhs THEN R(c, vs, NoIter)
    ELSE IF vs[rhs].size_ > vs[v].data_.capacity_
    THEN \* Vector<T> new_vector(rhs); Swap(new_vector); ~new_vector
         LET al == RawMemoryCtor(c, vs[rhs].size_)
             c1 == uninitialized_copy_n(al.c, vs[rhs].data_.buffer_, 0, vs[rhs].size_,
                                        al.m.buffer_, 0)
             new_vector == [data_ |-> al.m, size_ |-> vs[rhs].size_]
             sw == RawMemorySwap(vs[v].data_, new_vector.data_)
             c2 == destroy_n(c1, sw[2].buffer_, 0, vs[v].size_)
         IN IF al.c.thrown THEN R(al.c, vs, NoIter)
            ELSE IF c1.thrown THEN R(RawMemoryDtor(c1, al.m), vs, NoIter)
            ELSE R(RawMemoryDtor(c2, sw[2]),
                   [vs EXCEPT ![v] = [data_ |-> sw[1], size_ |-> new_vector.size_]], NoIter)
    ELSE LET a == vs[v].data_.buffer_
             b == vs[rhs].data_.buffer_
             n == vs[v].size_
             m == vs[rhs].size_
             c1 == copy_n(c, b, 0, IF n < m THEN n ELSE m, a, 0)
             c2 == IF m < n THEN destroy_n(c1, a, m, n - m)
                   ELSE uninitialized_copy_n(c1, b, n, m - n, a, n)
         IN IF c1.thrown THEN R(c1, vs, NoIter)
            ELSE IF c2.thrown THEN R(c2, vs, NoIter)
            ELSE R(c2, [vs EXCEPT ![v].size_ = m], NoIter)

\* Vector& operator=(Vector&& rhs) noexcept
MoveAssign(vs, c, v, rhs) ==
    LET ma == RawMemoryMoveAssign(vs[v].data_, vs[rhs].data_)
        vs1 == IF v = rhs THEN vs
               ELSE [vs EXCEPT ![v].data_ = ma[1], ![rhs].data_ = ma[2]]
        vs2 == [vs1 EXCEPT ![v].size_ = vs1[rhs].size_]
        vs3 == [vs2 EXCEPT ![rhs].size_ = 0]
    IN R(c, vs3, NoIter)

\* T& operator[](size_t index) used as v[index] = x: copy assignment to the
\* element the returned reference denotes
IndexAssign(vs, c, v, index, x) ==
    R(CopyAssignAt(c, vs[v].data_.buffer_, index, x), vs, NoIter)

\* ------------------------------------------------------- the calls
NoCall == [op |-> "none", v |-> "A", w |-> "A", ok |-> TRUE, ret |-> NoIter,
           ctors |-> 0, dtors |-> 0, lost |-> 0, ub |-> FALSE, dfree |-> FALSE,
           log |-> <<>>,
           arg |-> NoArg, p |-> 0, n |-> 0,
           pre |-> [v \in Vecs |-> EmptyVector],
           preHeap |-> [a \in Addrs |-> <<>>],
           preAlive |-> {}]

\* a call of member function op on v (other operand w) has returned or thrown
\* with outcome r
Call(op, v, w, arg, p, n, r) ==
    /\ ops < MaxOps
    /\ ops' = ops + 1
    /\ failed' = (failed \/ r.c.thrown)
    /\ copies' = IF op = "Vector(const&)" /\ ~r.c.thrown THEN copies \cup {v}
                 ELSE IF op = "~Vector" THEN copies \ {v}
                 ELSE copies
    /\ heap' = r.c.heap
    /\ vec' = r.vec
    /\ T' = T
    /\ last' = [op |-> op, v |-> v, w |-> w, ok |-> ~r.c.thrown, ret |-> r.ret,
                ctors |-> r.c.ctors, dtors |-> r.c.dtors, lost |-> r.c.lost,
                ub |-> r.c.ub, dfree |-> r.c.dfree, log |-> r.c.log,
                arg |-> arg, p |-> p, n |-> n,
                pre |-> vec, preHeap |-> heap, preAlive |-> alive]

\* a constructor that throws leaves no object behind
Born(v, r) == alive' = IF r.c.thrown THEN alive ELSE alive \cup {v}

\* capacity the growth path of an append or insert asks for
Grown(v) == IF vec[v].size_ = 0 THEN 1 ELSE vec[v].size_ * 2
CanAppend(v) == vec[v].size_ < vec[v].data_.capacity_ \/ Grown(v) <= MaxCap

Args(v) == {ValArg(x) : x \in Values} \cup {RefArg(i) : i \in 0..(vec[v].size_ - 1)}
ValArgs == {ValArg(x) : x \in Values}

\* the program has instantiated Vector<T> and declared `Vector<T> A;`
Init ==
    /\ T \in ElemTypes
    /\ heap = [a \in Addrs |-> <<>>]
    /\ alive = {"A"}
    /\ vec = [v \in Vecs |-> EmptyVector]
    /\ last = NoCall
    /\ ops = 0
    /\ failed = FALSE
    /\ copies = {}

CallVectorDefault ==
    \E v \in Vecs \ alive :
        LET r == VectorDefault(vec, Ctx(heap, 0), v)
        IN Call("Vector()", v, v, NoArg, 0, 0, r) /\ Born(v, r)

CallVectorSized ==
    \E v \in Vecs \ alive, n \in 0..MaxCap, k \in 0..MaxK :
        LET r == VectorSized(vec, Ctx(heap, k), v, n)
        IN Call("Vector(size)", v, v, NoArg, 0, n, r) /\ Born(v, r)

CallVectorCopy ==
    \E v \in Vecs \ alive, w \in alive, k \in 0..MaxK :
        LET r == VectorCopy(vec, Ctx(heap, k), v, w)
        IN Call("Vector(const&)", v, w, NoArg, 0, 0, r) /\ Born(v, r)

CallVectorMove ==
    \E v \in Vecs \ alive, w \in alive :
        LET r == VectorMove(vec, Ctx(heap, 0), v, w)
        IN Call("Vector(&&)", v, w, NoArg, 0, 0, r) /\ Born(v, r)

CallVectorDtor ==
    \E v \in alive :
        LET r == VectorDtor(vec, Ctx(heap, 0), v)
        IN Call("~Vector", v, v, NoArg, 0, 0, r) /\ alive' = alive \ {v}

CallPushBack ==
    \E v \in alive, k \in 0..MaxK :
        /\ CanAppend(v)
        /\ \E arg \in Args(v) :
              Call("PushBack", v, v, arg, vec[v].size_, 0, PushBack(vec, Ctx(heap, k), v, arg))
        /\ UNCHANGED alive

CallPushBackMove ==
    \E v \in alive, k \in 0..MaxK, arg \in ValArgs :
        /\ CanAppend(v)
        /\ Call("PushBack(&&)", v, v, arg, vec[v].size_, 0,
                PushBackMove(vec, Ctx(heap, k), v, arg))
        /\ UNCHANGED alive

CallEmplaceBack ==
    \E v \in alive, k \in 0..MaxK, arg \in ValArgs :
        /\ CanAppend(v)
        /\ Call("EmplaceBack", v, v, arg, vec[v].size_, 0,
                EmplaceBack(vec, Ctx(heap, k), v, arg))
        /\ UNCHANGED alive

CallPopBack ==
    \E v \in alive :
        /\ vec[v].size_ # 0
        /\ Call("PopBack", v, v, NoArg, 0, 0, PopBack(vec, Ctx(heap, 0), v))
        /\ UNCHANGED alive

CallReserve ==
    \E v \in alive, n \in 0..MaxCap, k \in 0..MaxK :
        /\ Call("Reserve", v, v, NoArg, 0, n, Reserve(vec, Ctx(heap, k), v, n))
        /\ UNCHANGED alive

CallSwap ==
    \E v \in alive, w \in alive :
        /\ Call("Swap", v, w, NoArg, 0, 0, Swap(vec, Ctx(heap, 0), v, w))
        /\ UNCHANGED alive

CallResize ==
    \E v \in alive, n \in 0..MaxCap, k \in 0..MaxK :
        /\ Call("Resize", v, v, NoArg, 0, n, Resize(vec, Ctx(heap, k), v, n))
        /\ UNCHANGED alive

CallEmplace ==
    \E v \in alive, k \in 0..MaxK, arg \in ValArgs :
        /\ CanAppend(v)
        /\ \E p \in 0..vec[v].size_ :
              Call("Emplace", v, v, arg, p, 0, Emplace(vec, Ctx(heap, k), v, p, "args", arg))
        /\ UNCHANGED alive

CallInsert ==
    \E v \in alive, k \in 0..MaxK :
        /\ CanAppend(v)
        /\ \E p \in 0..vec[v].size_, arg \in Args(v) :
              Call("Insert", v, v, arg, p, 0, Insert(vec, Ctx(heap, k), v, p, arg))
        /\ UNCHANGED alive

CallInsertMove ==
    \E v \in alive, k \in 0..MaxK, arg \in ValArgs :
        /\ CanAppend(v)
        /\ \E p \in 0..vec[v].size_ :
              Call("Insert(&&)", v, v, arg, p, 0, InsertMove(vec, Ctx(heap, k), v, p, arg))
        /\ UNCHANGED alive

\* Erase is noexcept: a throwing move assignment would end the program
CallErase ==
    \E v \in alive :
        /\ \E p \in 0..(vec[v].size_ - 1) :
              Call("Erase", v, v, NoArg, p, 0, Erase(vec, Ctx(heap, 0), v, p))
        /\ UNCHANGED alive

CallIndexAssign ==
    \E v \in alive, k \in 0..1, x \in Values :
        /\ \E i \in 0..(vec[v].size_ - 1) :
              Call("operator[]=", v, v, ValArg(x), i, 0, IndexAssign(vec, Ctx(heap, k), v, i, x))
        /\ UNCHANGED alive

CallCopyAssign ==
    \E v \in alive, w \in alive, k \in 0..MaxK :
        /\ Call("operator=(const&)", v, w, NoArg, 0, 0, CopyAssign(vec, Ctx(heap, k), v, w))
        /\ UNCHANGED alive

CallMoveAssign ==
    \E v \in alive, w \in alive :
        /\ Call("operator=(&&)", v, w, NoArg, 0, 0, MoveAssign(vec, Ctx(heap, 0), v, w))
        /\ UNCHANGED alive

Next ==
    \/ CallVectorDefault
    \/ CallVectorSized
    \/ CallVectorCopy
    \/ CallVectorMove
    \/ CallVectorDtor
    \/ CallPushBack
    \/ CallPushBackMove
    \/ CallEmplaceBack
    \/ CallPopBack
    \/ CallReserve
    \/ CallSwap
    \/ CallResize
    \/ CallEmplace
    \/ CallInsert
    \/ CallInsertMove
    \/ CallErase
    \/ CallIndexAssign
    \/ CallCopyAssign
    \/ CallMoveAssign

Spec == Init /\ [][Next]_vars
\* ------------------------------------------------------- properties
PreElems(v) == Elems(last.preHeap, last.pre, v)
PostElems(v) == Elems(heap, vec, v)
WasFull(v) == last.pre[v].size_ = last.pre[v].data_.capacity_

AppendOps == {"PushBack", "PushBack(&&)", "EmplaceBack"}
InsertOps == {"Emplace", "Insert", "Insert(&&)"}

\* 0 <= Size() <= Capacity(), slots [0, Size()) live, slots [Size(), Capacity()) raw
WellFormed(h, vs, v) ==
    /\ 0 <= vs[v].size_
    /\ vs[v].size_ <= vs[v].data_.capacity_
    /\ \A i \in 0..(vs[v].size_ - 1) : Live(h, vs[v].data_.buffer_, i)
    /\ \A i \in vs[v].size_..(vs[v].data_.capacity_ - 1) : ~Live(h, vs[v].data_.buffer_, i)

\* C1: after any sequence of calls none of which failed, every vector has
\* 0 <= Size() <= Capacity(), live elements in [0, Size()) and no live element
\* in [Size(), Capacity()).
C1_LiveExactlyBelowSize ==
    ~failed => \A v \in alive : WellFormed(heap, vec, v)

\* C2: after the move-assignment v = std::move(w) of two distinct vectors the
\* source w has Size() == 0 and Capacity() == 0.
C2_MoveAssignEmptiesSource ==
    (last.op = "operator=(&&)" /\ last.v # last.w)
        => (Size(vec, last.w) = 0 /\ Capacity(vec, last.w) = 0)

\* C3: the move-assignment v = std::move(w) destroys every element v held
\* (as many destructor calls as v had elements, none of them left live in the
\* block v owned), and v then holds w's former elements in order.
C3_MoveAssignReleasesTarget ==
    (last.op = "operator=(&&)" /\ last.v # last.w)
        => LET b == last.pre[last.v].data_.buffer_
           IN /\ last.dtors = last.pre[last.v].size_
              /\ \A i \in 0..(last.pre[last.v].size_ - 1) :
                    heap[b] = <<>> \/ ~Live(heap, b, i)
              /\ PostElems(last.v) = PreElems(last.w)

\* C4: a PushBack(const T&) on a full vector that fails (allocation, or the
\* copy constructor on any invocation) leaves size, capacity, buffer and
\* element values as they were.
C4_FailedPushBackChangesNothing ==
    (last.op = "PushBack" /\ ~last.ok /\ WasFull(last.v))
        => (vec[last.v] = last.pre[last.v] /\ PostElems(last.v) = PreElems(last.v))

\* the copy of an existing element threw after the new element and at least
\* one existing element had been copied into the new buffer
C4_Witness ==
    /\ last.op = "PushBack" /\ ~last.ok /\ WasFull(last.v)
    /\ T = "throwing_move"
    /\ last.pre[last.v].size_ >= 2
    /\ last.ctors >= 2

\* C5: when a growing PushBack / EmplaceBack / Emplace / Insert fails while
\* transferring an existing element, every element constructed in the new
\* buffer has been destroyed (as many destructor as constructor calls, no
\* live element released with the buffer).
C5_FailedTransferUnwindsNewBuffer ==
    (last.op \in AppendOps \cup InsertOps /\ ~last.ok /\ WasFull(last.v) /\ last.ctors >= 1)
        => (last.dtors = last.ctors /\ last.lost = 0)
\* v is the source of the move-construction or move-assignment just made
IsMoveSource(v) == last.op \in {"Vector(&&)", "operator=(&&)"} /\ last.w = v
Survivors == alive \cap last.preAlive

ArgValue == IF last.arg.kind = "ref" THEN PreElems(last.v)[last.arg.i + 1] ELSE last.arg.x
Max(a, b) == IF a >= b THEN a ELSE b

\* C7: a successful PushBack / EmplaceBack on a vector of size s and capacity
\* c leaves capacity c when s < c and max(1, 2c) when s == c, the size s + 1,
\* the first s elements as they were and the appended value last.
C7_GrowthLaw ==
    (last.op \in AppendOps /\ last.ok)
        => LET s == Size(last.pre, last.v)
               c == Capacity(last.pre, last.v)
           IN /\ Capacity(vec, last.v) = IF s < c THEN c ELSE Max(1, 2 * c)
              /\ Size(vec, last.v) = s + 1
              /\ PostElems(last.v) = Append(PreElems(last.v), ArgValue)

\* a PushBack on a full vector of two elements doubled the capacity
C7_Witness ==
    /\ last.op = "PushBack" /\ last.ok /\ WasFull(last.v)
    /\ Size(last.pre, last.v) = 2
    /\ Capacity(vec, last.v) = 4
    /\ PreElems(last.v)[1] # PreElems(last.v)[2]

\* C8: a successful Insert / Emplace of a value x of the caller at begin()+p
\* into e[0..n) yields e[0..p) ++ [x] ++ e[p..n) with size n + 1, on both
\* paths, and returns begin()+p of the vector after the call, which holds x.
C8_InsertPlacesValue ==
    (last.op \in InsertOps /\ last.ok /\ last.arg.kind = "val")
        => LET e == PreElems(last.v)
               n == Len(e)
               p == last.p
           IN /\ PostElems(last.v) = SubSeq(e, 1, p) \o <<last.arg.x>> \o SubSeq(e, p + 1, n)
              /\ Size(vec, last.v) = n + 1
              /\ last.ret = Iter(vec[last.v].data_.buffer_, p)
              /\ heap[last.ret.a][last.ret.i + 1] = last.arg.x

\* an in-place Insert that shifted two or more elements of differing values
C8_Witness ==
    /\ last.op = "Insert" /\ last.ok /\ last.arg.kind = "val"
    /\ ~WasFull(last.v)
    /\ last.p + 2 <= Size(last.pre, last.v)
    /\ PreElems(last.v)[last.p + 1] # PreElems(last.v)[last.p + 2]
    /\ T # "trivial"

\* C9: Erase(begin()+p) on e[0..n) yields e[0..p) ++ e[p+1..n) with size
\* n - 1 and the same capacity, destroys exactly one element and returns
\* begin()+p.
C9_EraseRemovesOne ==
    (last.op = "Erase")
        => LET e == PreElems(last.v)
               n == Len(e)
               p == last.p
           IN /\ PostElems(last.v) = SubSeq(e, 1, p) \o SubSeq(e, p + 2, n)
              /\ Size(vec, last.v) = n - 1
              /\ vec[last.v].data_ = last.pre[last.v].data_
              /\ last.dtors = 1
              /\ last.ret = Iter(vec[last.v].data_.buffer_, p)

\* an Erase before the last element, whose successor had another value
C9_Witness ==
    /\ last.op = "Erase"
    /\ last.p + 2 <= Size(last.pre, last.v)
    /\ PreElems(last.v)[last.p + 1] # PreElems(last.v)[last.p + 2]

\* C10: after a successful Resize(n) on a vector of size old, Size() == n,
\* elements [0, min(old, n)) are as they were, elements [old, n) are
\* value-initialised, shrinking destroyed exactly the old - n trailing
\* elements, and the capacity is n if n exceeded it and unchanged otherwise.
C10_Resize ==
    (last.op = "Resize" /\ last.ok)
        => LET old == Size(last.pre, last.v)
               n == last.n
               b == vec[last.v].data_.buffer_
           IN /\ Size(vec, last.v) = n
              /\ \A i \in 1..(IF old < n THEN old ELSE n) :
                    PostElems(last.v)[i] = PreElems(last.v)[i]
              /\ \A i \in (old + 1)..n : PostElems(last.v)[i] = DefaultValue
              /\ n < old => /\ last.dtors = old - n
                            /\ \A i \in n..(old - 1) : ~Live(heap, b, i)
              /\ Capacity(vec, last.v) =
                    IF n > Capacity(last.pre, last.v) THEN n ELSE Capacity(last.pre, last.v)

\* a Resize beyond the capacity of a vector that held a caller's value
C10_Witness ==
    /\ last.op = "Resize" /\ last.ok
    /\ last.n > Capacity(last.pre, last.v)
    /\ Size(last.pre, last.v) >= 1
    /\ PreElems(last.v)[1] \in Values
\* calls that change the vector they are made on and no other
MutatorOps == AppendOps \cup InsertOps \cup
              {"Erase", "PopBack", "Resize", "Reserve", "operator[]=", "operator=(const&)"}

\* u has the buffer, capacity, size and element values it had before the call
Untouched(u) ==
    /\ vec[u] = last.pre[u]
    /\ heap[vec[u].data_.buffer_] = last.preHeap[vec[u].data_.buffer_]

\* C11: a vector v copy-constructed from w has w's elements in order with
\* Size() == Capacity() == w.Size() and a buffer of its own, and a mutation
\* of a vector (append, insert, erase, pop, resize, reserve, element write,
\* copy-assignment to it), whether it succeeds or throws, leaves every other
\* vector's buffer, size, capacity and element values as they were.
C11_CopyDoesNotAlias ==
    /\ (last.op = "Vector(const&)" /\ last.ok)
          => /\ PostElems(last.v) = PreElems(last.w)
             /\ Size(vec, last.v) = Size(last.pre, last.w)
             /\ Capacity(vec, last.v) = Size(last.pre, last.w)
             /\ Size(vec, last.v) > 0 => vec[last.v].data_.buffer_ # vec[last.w].data_.buffer_
             /\ vec[last.w] = last.pre[last.w]
             /\ PostElems(last.w) = PreElems(last.w)
    /\ last.op \in MutatorOps
          => \A u \in Survivors \ {last.v} :
                /\ vec[u] = last.pre[u]
                /\ PostElems(u) = PreElems(u)
                /\ Capacity(vec, u) > 0 => Untouched(u)

\* a copy-constructed vector that held the elements of its original was
\* changed by a mutation
C11_Witness ==
    /\ last.op \in MutatorOps /\ last.ok
    /\ last.v \in copies
    /\ \E u \in Survivors \ {last.v} :
          /\ Size(last.pre, u) >= 1
          /\ PreElems(u) = PreElems(last.v)
          /\ PostElems(u) # PostElems(last.v)

\* C12: a successful copy-assignment v = w between distinct vectors gives v
\* the elements and size of w and leaves w as it was; when w.Size() is at most
\* v's prior capacity v keeps its buffer and capacity, and when w is shorter
\* exactly the v.Size() - w.Size() excess elements are destroyed; when
\* w.Size() exceeds v's prior capacity v's capacity becomes w.Size(). The
\* self-assignment v = v changes nothing.
C12_CopyAssignSucceeds ==
    (last.op = "operator=(const&)" /\ last.ok) =>
        LET v == last.v
            w == last.w
            n == Size(last.pre, v)
            m == Size(last.pre, w)
        IN /\ v # w =>
                /\ PostElems(v) = PreElems(w)
                /\ Size(vec, v) = m
                /\ vec[w] = last.pre[w]
                /\ PostElems(w) = PreElems(w)
                /\ m <= Capacity(last.pre, v) =>
                      /\ vec[v].data_ = last.pre[v].data_
                      /\ m < n => /\ last.dtors = n - m
                                  /\ \A i \in m..(n - 1) : ~Live(heap, vec[v].data_.buffer_, i)
                      /\ m >= n => last.dtors = 0
                /\ m > Capacity(last.pre, v) => Capacity(vec, v) = m
           /\ v = w => /\ vec = last.pre
                       /\ heap = last.preHeap
                       /\ last.ctors = 0 /\ last.dtors = 0

\* a copy-assignment from a shorter, non-empty vector reused the storage
C12_Witness ==
    /\ last.op = "operator=(const&)" /\ last.ok /\ last.v # last.w
    /\ Size(last.pre, last.w) >= 1
    /\ Size(last.pre, last.w) < Size(last.pre, last.v)
    /\ vec[last.v].data_ = last.pre[last.v].data_
    /\ last.dtors = Size(last.pre, last.v) - Size(last.pre, last.w)

\* C13: when a copy-assignment v = w with w.Size() > v.Capacity() fails (the
\* allocation, or the copy of any element), v has the buffer, size, capacity
\* and element values it had, w is unchanged, and every element built in the
\* temporary copy has been destroyed and the temporary's block released.
C13_FailedCopyAssignChangesNothing ==
    (/\ last.op = "operator=(const&)" /\ ~last.ok
     /\ Size(last.pre, last.w) > Capacity(last.pre, last.v)) =>
        /\ vec = last.pre
        /\ heap = last.preHeap
        /\ PostElems(last.v) = PreElems(last.v)
        /\ PostElems(last.w) = PreElems(last.w)
        /\ last.dtors = last.ctors
        /\ last.lost = 0 /\ ~last.dfree

\* the copy of a later element threw, with elements already built in the
\* temporary and the target holding elements of its own
C13_Witness ==
    /\ last.op = "operator=(const&)" /\ ~last.ok
    /\ Size(last.pre, last.w) > Capacity(last.pre, last.v)
    /\ Size(last.pre, last.v) >= 1
    /\ last.ctors >= 1

\* C14: Reserve(n) never changes the size or the element values; with
\* n <= Capacity() nothing changes at all; with n > Capacity() a successful
\* call makes the capacity exactly n; a failed call (allocation, or the copy
\* of any element when the move may throw) leaves buffer, size, capacity and
\* every element value as before, no source element moved-from, and neither an
\* element nor a block leaked.
C14_Reserve ==
    last.op = "Reserve" =>
        LET v == last.v
        IN /\ Size(vec, v) = Size(last.pre, v)
           /\ PostElems(v) = PreElems(v)
           /\ last.n <= Capacity(last.pre, v) =>
                 /\ last.ok
                 /\ vec = last.pre /\ heap = last.preHeap
                 /\ last.ctors = 0 /\ last.dtors = 0
           /\ (last.n > Capacity(last.pre, v) /\ last.ok) => Capacity(vec, v) = last.n
           /\ ~last.ok =>
                 /\ vec = last.pre /\ heap = last.preHeap
                 /\ last.dtors = last.ctors
                 /\ last.lost = 0 /\ ~last.dfree

\* a Reserve that had to reallocate failed while copying a later element of
\* a type whose move constructor may throw
C14_Witness ==
    /\ last.op = "Reserve" /\ ~last.ok
    /\ T = "throwing_move"
    /\ last.n > Capacity(last.pre, last.v)
    /\ Size(last.pre, last.v) >= 2
    /\ last.ctors >= 1

\* C15: when Vector(size) or the copy constructor fails at the element with
\* index k, the k elements built so far are destroyed exactly once each, the
\* block is released exactly once, and no vector comes into existence: the
\* heap is as it was, with no live element and no block of that constructor.
C15_FailedConstructorUnwinds ==
    (last.op \in {"Vector(size)", "Vector(const&)"} /\ ~last.ok) =>
        /\ last.dtors = last.ctors
        /\ last.lost = 0 /\ ~last.dfree /\ ~last.ub
        /\ heap = last.preHeap
        /\ vec = last.pre
        /\ last.v \notin alive
        /\ vec[last.v] = EmptyVector

\* a constructor failed at an element with index k >= 1
C15_Witness ==
    /\ last.op \in {"Vector(size)", "Vector(const&)"} /\ ~last.ok
    /\ last.ctors >= 1
    /\ last.dtors = last.ctors

\* C16: when Emplace/Insert at a position other than end(), on a vector with
\* Size() < Capacity() that was well formed, fails at any step, the vector is
\* still consistent and destructible: slots [0, Size()) are live, no slot in
\* [Size(), Capacity()) holds a live element, so that ~Vector destroys every
\* live element of the block exactly once.
C16_FailedInPlaceInsertStaysConsistent ==
    (/\ last.op \in InsertOps /\ ~last.ok
     /\ ~WasFull(last.v)
     /\ last.p # Size(last.pre, last.v)
     /\ WellFormed(last.preHeap, last.pre, last.v)) =>
        /\ WellFormed(heap, vec, last.v)
        /\ LiveCount(heap, vec[last.v].data_.buffer_) = Size(vec, last.v)

\* C17: after the move-construction v(std::move(w)), v has the buffer, the
\* capacity, the size and so the elements w had, no element was constructed
\* or destroyed, and w has Size() == 0 and Capacity() == 0 and is usable: an
\* append to it, a copy-assignment to it and its destruction behave as they
\* do for an empty vector.
C17_MoveConstruct ==
    last.op = "Vector(&&)" =>
        LET v == last.v
            w == last.w
            c == Ctx(heap, 0)
            pushed == PushBack(vec, c, w, ValArg(1))
            assigned == CopyAssign(vec, c, w, v)
            destroyed == VectorDtor(vec, c, w)
        IN /\ last.ok
           /\ vec[v] = last.pre[w]
           /\ PostElems(v) = PreElems(w)
           /\ heap = last.preHeap
           /\ last.ctors = 0 /\ last.dtors = 0
           /\ Size(vec, w) = 0 /\ Capacity(vec, w) = 0
           /\ vec[w].data_.buffer_ = nullptr
           /\ FreeAddrs(heap) # {} =>
                 /\ ~pushed.c.thrown /\ ~pushed.c.ub
                 /\ Elems(pushed.c.heap, pushed.vec, w) = <<1>>
                 /\ Elems(pushed.c.heap, pushed.vec, v) = PostElems(v)
                 /\ ~assigned.c.thrown /\ ~assigned.c.ub
                 /\ Elems(assigned.c.heap, assigned.vec, w) = PostElems(v)
           /\ ~destroyed.c.ub /\ ~destroyed.c.dfree
           /\ destroyed.c.dtors = 0 /\ destroyed.c.heap = heap

\* a vector holding elements was the source of a move-construction
C17_Witness ==
    /\ last.op = "Vector(&&)"
    /\ Size(last.pre, last.w) >= 1
    /\ Size(vec, last.v) = Size(last.pre, last.w)
    /\ FreeAddrs(heap) # {}

\* the living vectors whose RawMemory holds block a
Owners(a) == {v \in alive : vec[v].data_.buffer_ = a}

\* C18: in every reachable state a RawMemory with capacity 0 has the null
\* address, no two RawMemory objects hold the same non-null block, no call
\* (its temporaries included) released a block twice, every allocated block is
\* held by exactly one living vector with its capacity, and so once all
\* vectors are destroyed every block has been released exactly once.
C18_ExclusiveOwnership ==
    /\ \A v \in Vecs : Capacity(vec, v) = 0 => vec[v].data_.buffer_ = nullptr
    /\ \A v \in Vecs \ alive : vec[v].data_.buffer_ = nullptr
    /\ \A v \in alive : vec[v].data_.buffer_ # nullptr
          => /\ Owners(vec[v].data_.buffer_) = {v}
             /\ Len(heap[vec[v].data_.buffer_]) = Capacity(vec, v)
             /\ Capacity(vec, v) > 0
    /\ \A a \in Addrs : heap[a] # <<>> => Cardinality(Owners(a)) = 1
    /\ ~last.dfree
    /\ alive = {} => \A a \in Addrs : heap[a] = <<>>

\* a call released the block its vector held (a reallocation, an exchange
\* with a temporary or a destruction) while another vector held a block too
C18_Witness ==
    /\ last.ok
    /\ last.pre[last.v].data_.buffer_ # nullptr
    /\ last.preHeap[last.pre[last.v].data_.buffer_] # <<>>
    /\ heap[last.pre[last.v].data_.buffer_] = <<>>
    /\ \E u \in alive \ {last.v} : vec[u].data_.buffer_ # nullptr

\* the place of a logged step in a growing call on a vector that held block
\* old, whose new element goes to slot p of the new block nb: 1 allocation,
\* 2 construction of the new element, 3 a transfer into the new block,
\* 4 destruction of an old element, 5 exchange of the buffers, 6 release of
\* the old block, 7 increment of the length; 8 and 9 are the unwinding of the
\* new block after a failure; 0 is any other step
Rank(e, nb, old, p) ==
    CASE e.e = "allocate" -> 1
      [] e.e = "construct" /\ e.a = nb /\ e.i = p -> 2
      [] e.e = "construct" /\ e.a = nb /\ e.i # p -> 3
      [] e.e = "destroy" /\ e.a = old -> 4
      [] e.e = "swap" /\ e.a = nb -> 5
      [] e.e = "deallocate" /\ e.a = old -> 6
      [] e.e = "size" -> 7
      [] e.e = "destroy" /\ e.a = nb -> 8
      [] e.e = "deallocate" /\ e.a = nb -> 9
      [] OTHER -> 0

Growth == last.op \in AppendOps \cup InsertOps /\ WasFull(last.v)

\* C19: in a growing PushBack, EmplaceBack, Emplace or Insert the steps run
\* in the order: allocate the new block, construct the new element at its
\* slot of the new block, transfer the old elements, destroy the old
\* elements, exchange the buffers, increment the length. So a failed call
\* never destroyed an old element and never changed the vector's buffer or
\* length, and a failure before or in the construction of the new element
\* leaves the old elements as they were, not moved-from.
C19_GrowthStepOrder ==
    Growth =>
        LET L == last.log
            old == last.pre[last.v].data_.buffer_
            n == Size(last.pre, last.v)
            nb == L[1].a
            rk(j) == Rank(L[j], nb, old, last.p)
            Count(r) == Cardinality({j \in 1..Len(L) : rk(j) = r})
        IN /\ L # <<>> => /\ L[1].e = "allocate" /\ nb # old
                          /\ \A j \in 1..Len(L) : rk(j) # 0
                          /\ \A i, j \in 1..Len(L) : i < j => rk(i) <= rk(j)
           /\ last.ok =>
                 /\ Count(1) = 1 /\ Count(2) = 1 /\ Count(3) = n /\ Count(4) = n
                 /\ Count(5) = 1 /\ Count(7) = 1
                 /\ Count(6) = (IF old = nullptr THEN 0 ELSE 1)
                 /\ Count(8) = 0 /\ Count(9) = 0
                 /\ Len(L) >= 2 /\ rk(2) = 2
           /\ ~last.ok =>
                 /\ Count(4) = 0 /\ Count(5) = 0 /\ Count(6) = 0 /\ Count(7) = 0
                 /\ vec = last.pre
                 /\ Count(3) >= 1 => Count(2) = 1
                 /\ Count(3) = 0 => heap = last.preHeap

\* a growing call on a vector with elements ran all its steps
C19_Witness ==
    /\ Growth /\ last.ok
    /\ Size(last.pre, last.v) >= 1
    /\ Len(last.log) = 2 * Size(last.pre, last.v) + 5
    /\ last.log[Len(last.log)].e = "size"

\* C20: when the value passed to a successful PushBack or Insert is a
\* reference to the element v[i] of the same vector, the vector afterwards
\* is e[0..p) ++ [e[i]] ++ e[p..n), e being its elements at the moment of the
\* call: the new element has the value v[i] had and the others keep theirs,
\* for every i and p, on the reallocating and on the in-place path.
C20_SelfReferenceIsSafe ==
    (last.op \in {"PushBack", "Insert"} /\ last.ok /\ last.arg.kind = "ref")
        => LET e == PreElems(last.v)
               n == Len(e)
               p == last.p
           IN /\ Size(vec, last.v) = n + 1
              /\ PostElems(last.v) = SubSeq(e, 1, p) \o <<e[last.arg.i + 1]>> \o SubSeq(e, p + 1, n)
              /\ ~last.ub
====
